---------------------------- MODULE Spec2Model ----------------------------
(***************************************************************************)
(* A model of fans.py: the fan curve (min_speed, max_speed, target_speed), *)
(* the xservers context manager, the polling loop of manage_fans and its   *)
(* finally block, and run.  The external tools (nvidia-smi, Xorg,          *)
(* nvidia-settings) are the environment: every invocation is recorded in   *)
(* `out`, the invocations made by the last step, and may succeed or raise. *)
(***************************************************************************)
EXTENDS Integers, Sequences, FiniteSets, TLC

VARIABLES
    buses,      \* run: the list gpu_buses() returned (bus ids 1..n)
    pc,         \* where run is: "xservers", "poll", "release", "cleanup", "exit"
    i,          \* index, in buses, of the bus the current for-loop is at
    displays,   \* xservers: the dict bus -> display number d (':' + str(d))
    servers,    \* xservers: the keys of the dict servers (bus -> Popen), in insertion order
    terminates, \* per bus, how many times server.terminate() was called
    speeds,     \* manage_fans: its local dict bus -> recorded speed (<<>> outside manage_fans)
    out,        \* the external invocations made by the last step, in order
    lastTemp,   \* history of manage_fans: for each bus polled, the temperature of its last completed poll
    released,   \* history: the buses a GPUFanControlState=0 command was issued for
    failed      \* history: the invocations that have raised so far

vars == <<buses, pc, i, displays, servers, terminates, speeds, out,
          lastTemp, released, failed>>

\* ------------------------------------------------------------- bounds
MaxGPUs == 2
TempLow == 45
TempHigh == 85
TempStep == 7
CurveLow == 40
CurveHigh == 90

\* The temperatures nvidia-smi may report in the multi-GPU specification.
Temps == {t \in TempLow..TempHigh : (t - TempLow) % TempStep = 0}
\* The temperatures nvidia-smi may report in the single-GPU specification.
CurveTemps == CurveLow..CurveHigh

\* ------------------------------------------------------------- fan curve
T_MIN == 50
T_MAX == 80
S_MIN == 30
S_MAX == 99

Min(a, b) == IF a <= b THEN a ELSE b
Max(a, b) == IF a >= b THEN a ELSE b

\* SCALE = (S_MAX - S_MIN)/float(T_MAX - T_MIN)**2, kept as a fraction.
ScaleNum == S_MAX - S_MIN
ScaleDen == (T_MAX - T_MIN) * (T_MAX - T_MIN)

\* int(min(SCALE*(t - T_MIN)**2 + S_MIN, S_MAX)): int() of a positive float is
\* its floor, and the floor of x + S_MIN is floor(x) + S_MIN.
min_speed(t) ==
    IF t < T_MIN THEN S_MIN
    ELSE Min(((ScaleNum * (t - T_MIN) * (t - T_MIN)) \div ScaleDen) + S_MIN, S_MAX)

\* The lower clamp max(..., S_MIN) left out.
max_speed_unclamped(t) ==
    IF t > T_MAX THEN S_MAX
    ELSE S_MAX - ((ScaleNum * (t - T_MAX) * (t - T_MAX) + ScaleDen - 1) \div ScaleDen)

\* A sign slip in the curve: the upper bound falls as the temperature rises.
max_speed_slip(t) ==
    IF t > T_MAX THEN S_MAX
    ELSE Max(S_MAX - ((ScaleNum * (t - T_MIN) * (t - T_MIN) + ScaleDen - 1) \div ScaleDen), S_MIN)

\* int(max(S_MAX - SCALE*(t - T_MAX)**2, S_MIN)): the floor of S_MAX - x is
\* S_MAX - ceil(x).
max_speed(t) ==
    IF t > T_MAX THEN S_MAX
    ELSE Max(S_MAX - ((ScaleNum * (t - T_MAX) * (t - T_MAX) + ScaleDen - 1) \div ScaleDen), S_MIN)

\* No upper clamp: the speed is only raised to the lower bound.
target_speed_noclamp(s, t) ==
    <<Max(s, min_speed(t)), min_speed(t), max_speed(t)>>

\* returns (speed, l, u)
target_speed(s, t) ==
    <<Min(Max(s, min_speed(t)), max_speed(t)), min_speed(t), max_speed(t)>>

\* ------------------------------------------------------------- invocations
\* temperature(bus): nvidia-smi --query-gpu=temperature.gpu -i bus
Query(b, t, ok) ==
    [tool |-> "nvidia-smi", bus |-> b, attr |-> "temperature.gpu", val |-> t, ok |-> ok]

\* assign(display, '<attr>=<val>'): nvidia-settings -a under DISPLAY=display
assign(b, attr, val, ok) ==
    [tool |-> "nvidia-settings", bus |-> b, attr |-> attr, val |-> val, ok |-> ok]

\* xserver(display, bus): Popen(['Xorg', display, ...])
xserver(b, d, ok) ==
    [tool |-> "Xorg", bus |-> b, attr |-> "display", val |-> d, ok |-> ok]

\* server.terminate()
terminate(b) ==
    [tool |-> "terminate", bus |-> b, attr |-> "signal", val |-> 15, ok |-> TRUE]

\* set_speed(display, target): the two commands, in order
set_speed(b, target) ==
    <<assign(b, "GPUFanControlState", 1, TRUE),
      assign(b, "GPUTargetFanSpeed", target, TRUE)>>

Fail(c) == [c EXCEPT !.ok = FALSE]

\* s with its last invocation having raised
FailLast(s) == [s EXCEPT ![Len(s)] = Fail(s[Len(s)])]

N == Len(buses)

\* The number of keys of displays; they were inserted in the order of buses, so
\* displays.items() visits buses[1], ..., buses[ND].
ND == Cardinality(DOMAIN displays)

\* Where the exception (or the normal end) of manage_fans lands: the finally of
\* xservers, which has something to do only when servers is not empty.
Cleanup(srv) == IF srv = <<>> THEN "exit" ELSE "cleanup"

\* Where leaving the polling loop lands: the finally of manage_fans.
Finally == IF ND = 0 THEN Cleanup(servers) ELSE "release"

\* ------------------------------------------------------------- xservers
\* A yield inside the loop: the body of the with statement runs after the first server.
EnterAfterStartEarly(k) == "poll"

\* The for loop of xservers yields only after its last bus.
EnterAfterStart(k) == IF k = N THEN "poll" ELSE "xservers"

\* One iteration of the loop of xservers; after the last, the yield and the
\* first line of manage_fans (speeds = {b: 0 for b in displays}).
StartX(k) ==
    /\ pc = "xservers"
    /\ i = k
    /\ displays' = (buses[k] :> k - 1) @@ displays
    /\ servers' = Append(servers, buses[k])
    /\ out' = <<xserver(buses[k], k - 1, TRUE)>>
    /\ pc' = EnterAfterStart(k)
    /\ i' = IF EnterAfterStart(k) = "poll" THEN 1 ELSE k + 1
    /\ speeds' = IF EnterAfterStart(k) = "poll"
                 THEN [b \in DOMAIN displays' |-> 0] ELSE speeds
    /\ UNCHANGED <<buses, terminates, lastTemp, released, failed>>

\* A start failure that leaves without the finally (the loop outside the try).
StartXFailNoCleanup(k) ==
    /\ pc = "xservers"
    /\ i = k
    /\ displays' = (buses[k] :> k - 1) @@ displays
    /\ out' = <<xserver(buses[k], k - 1, FALSE)>>
    /\ failed' = failed \cup {xserver(buses[k], k - 1, FALSE)}
    /\ pc' = "exit"
    /\ i' = 1
    /\ UNCHANGED <<buses, servers, terminates, speeds, lastTemp, released>>

\* xserver raises (config or Popen): displays[bus] is set, servers[bus] is not.
StartXFail(k) ==
    /\ pc = "xservers"
    /\ i = k
    /\ displays' = (buses[k] :> k - 1) @@ displays
    /\ out' = <<xserver(buses[k], k - 1, FALSE)>>
    /\ failed' = failed \cup {xserver(buses[k], k - 1, FALSE)}
    /\ pc' = Cleanup(servers)
    /\ i' = 1
    /\ UNCHANGED <<buses, servers, terminates, speeds, lastTemp, released>>

\* ------------------------------------------------------------- manage_fans
\* The invocations of one whole iteration of the for loop for bus b at
\* temperature t: the query, then set_speed when the target differs.
PollCmds(b, t) ==
    <<Query(b, t, TRUE)>> \o
    (IF target_speed(speeds[b], t)[1] # speeds[b]
     THEN set_speed(b, target_speed(speeds[b], t)[1]) ELSE <<>>)

\* The recorded speeds after a completed iteration for bus b.
Record(b, s) == [speeds EXCEPT ![b] = s]

\* One completed iteration of the for loop (and, after the last bus, the sleep).
Poll(k, t) ==
    /\ pc = "poll"
    /\ i = k
    /\ k \in 1..ND
    /\ out' = PollCmds(buses[k], t)
    /\ speeds' = Record(buses[k], target_speed(speeds[buses[k]], t)[1])
    /\ lastTemp' = (buses[k] :> t) @@ lastTemp
    /\ i' = IF k = ND THEN 1 ELSE k + 1
    /\ UNCHANGED <<buses, pc, displays, servers, terminates, released, failed>>

\* A failed query swallowed: the loop goes on with the same bus.
TemperatureFailRetry(k) ==
    /\ pc = "poll"
    /\ i = k
    /\ k \in 1..ND
    /\ out' = <<Query(buses[k], 0, FALSE)>>
    /\ failed' = failed \cup {Query(buses[k], 0, FALSE)}
    /\ UNCHANGED <<buses, pc, i, displays, servers, terminates, speeds, lastTemp, released>>

\* temperature(bus) raises (nvidia-smi fails, or its output does not parse).
TemperatureFail(k) ==
    /\ pc = "poll"
    /\ i = k
    /\ k \in 1..ND
    /\ out' = <<Query(buses[k], 0, FALSE)>>
    /\ failed' = failed \cup {Query(buses[k], 0, FALSE)}
    /\ pc' = Finally
    /\ i' = 1
    /\ UNCHANGED <<buses, displays, servers, terminates, speeds, lastTemp, released>>

\* The j-th command of set_speed raises; speeds[bus] is not assigned.
SetSpeedFail(k, t, j) ==
    /\ pc = "poll"
    /\ i = k
    /\ k \in 1..ND
    /\ 1 + j <= Len(PollCmds(buses[k], t))
    /\ out' = FailLast(SubSeq(PollCmds(buses[k], t), 1, 1 + j))
    /\ failed' = failed \cup {Fail(PollCmds(buses[k], t)[1 + j])}
    /\ pc' = Finally
    /\ i' = 1
    /\ UNCHANGED <<buses, displays, servers, terminates, speeds, lastTemp, released>>

\* KeyboardInterrupt inside an iteration, after its first j invocations and
\* before speeds[bus] is assigned.
InterruptPoll(k, t, j) ==
    /\ pc = "poll"
    /\ i = k
    /\ k \in 1..ND
    /\ j \in 1..Len(PollCmds(buses[k], t))
    /\ out' = SubSeq(PollCmds(buses[k], t), 1, j)
    /\ pc' = Finally
    /\ i' = 1
    /\ UNCHANGED <<buses, displays, servers, terminates, speeds, lastTemp, released, failed>>

\* KeyboardInterrupt between two iterations or in time.sleep(5).
InterruptSleep ==
    /\ pc = "poll"
    /\ out' = <<>>
    /\ pc' = Finally
    /\ i' = 1
    /\ UNCHANGED <<buses, displays, servers, terminates, speeds, lastTemp, released, failed>>

\* One iteration of the finally loop of manage_fans; after the last one
\* manage_fans is left and its locals are gone.
Release(k) ==
    /\ pc = "release"
    /\ i = k
    /\ k \in 1..ND
    /\ out' = <<assign(buses[k], "GPUFanControlState", 0, TRUE)>>
    /\ released' = released \cup {buses[k]}
    /\ pc' = IF k = ND THEN Cleanup(servers) ELSE "release"
    /\ i' = IF k = ND THEN 1 ELSE k + 1
    /\ speeds' = IF k = ND THEN <<>> ELSE speeds
    /\ lastTemp' = IF k = ND THEN <<>> ELSE lastTemp
    /\ UNCHANGED <<buses, displays, servers, terminates, failed>>

\* The release command raises: the exception leaves the finally loop, and
\* manage_fans with it.
ReleaseFail(k) ==
    /\ pc = "release"
    /\ i = k
    /\ k \in 1..ND
    /\ out' = <<assign(buses[k], "GPUFanControlState", 0, FALSE)>>
    /\ released' = released \cup {buses[k]}
    /\ failed' = failed \cup {assign(buses[k], "GPUFanControlState", 0, FALSE)}
    /\ pc' = Cleanup(servers)
    /\ i' = 1
    /\ speeds' = <<>>
    /\ lastTemp' = <<>>
    /\ UNCHANGED <<buses, displays, servers, terminates>>

\* ------------------------------------------------------------- xservers, finally
\* One iteration of the finally loop of xservers.
Terminate(k) ==
    /\ pc = "cleanup"
    /\ i = k
    /\ out' = <<terminate(servers[k])>>
    /\ terminates' = [terminates EXCEPT ![servers[k]] = @ + 1]
    /\ pc' = IF k = Len(servers) THEN "exit" ELSE "cleanup"
    /\ i' = IF k = Len(servers) THEN 1 ELSE k + 1
    /\ UNCHANGED <<buses, displays, servers, speeds, lastTemp, released, failed>>

\* ------------------------------------------------------------- run
\* The state after buses = gpu_buses() is n buses, and xservers has made its
\* two empty dicts; with no bus the loop of xservers is empty and manage_fans
\* is entered at once.
InitWith(n) ==
    /\ buses = [k \in 1..n |-> k]
    /\ pc = IF n = 0 THEN "poll" ELSE "xservers"
    /\ i = 1
    /\ displays = <<>>
    /\ servers = <<>>
    /\ terminates = [b \in 1..n |-> 0]
    /\ speeds = <<>>
    /\ out = <<>>
    /\ lastTemp = <<>>
    /\ released = {}
    /\ failed = {}

Step(T) ==
    \/ \E k \in 1..N : StartX(k)
    \/ \E k \in 1..N : StartXFail(k)
    \/ \E k \in 1..N, t \in T : Poll(k, t)
    \/ \E k \in 1..N : TemperatureFail(k)
    \/ \E k \in 1..N, t \in T, j \in 1..2 : SetSpeedFail(k, t, j)
    \/ \E k \in 1..N, t \in T, j \in 1..3 : InterruptPoll(k, t, j)
    \/ InterruptSleep
    \/ \E k \in 1..N : Release(k)
    \/ \E k \in 1..N : ReleaseFail(k)
    \/ \E k \in 1..N : Terminate(k)

Init == \E n \in 0..MaxGPUs : InitWith(n)
Next == Step(Temps)
Spec == Init /\ [][Next]_vars

\* One GPU, every temperature of CurveTemps.
InitCurve == InitWith(1)
NextCurve == Step(CurveTemps)
SpecCurve == InitCurve /\ [][NextCurve]_vars

\* ------------------------------------------------------------- properties
IsSetting(c) == c.tool = "nvidia-settings"
IsTarget(c) == c.tool = "nvidia-settings" /\ c.attr = "GPUTargetFanSpeed"
IsRelease(c) == c.tool = "nvidia-settings" /\ c.attr = "GPUFanControlState" /\ c.val = 0
IsQuery(c) == c.tool = "nvidia-smi"
Outs == {out[k] : k \in 1..Len(out)}
Started == {servers[k] : k \in 1..Len(servers)}

\* The same invocation, whatever its outcome.
SameOp(c, f) == c.tool = f.tool /\ c.bus = f.bus /\ c.attr = f.attr /\ c.val = f.val

\* A step that is one completed iteration of the polling loop: out' is then
\* the query of the polled bus followed by the commands issued for it.
PollStep == pc = "poll" /\ pc' = "poll"

\* C1: every GPUTargetFanSpeed command issued, whether it then succeeds or
\* raises, carries a target between S_MIN and S_MAX.
C1_SafeBand ==
    \A c \in Outs : IsTarget(c) => (S_MIN <= c.val /\ c.val <= S_MAX)

\* A target of S_MAX has just been issued for the second of two GPUs.
C1_Witness ==
    /\ N = 2
    /\ \E c \in Outs : IsTarget(c) /\ c.bus = buses[2] /\ c.val = S_MAX

\* C2: when the program has ended after manage_fans ran (every X server was
\* started), a GPUFanControlState=0 command has been issued for every GPU of
\* the display mapping.
C2_AllReleased ==
    (pc = "exit" /\ Len(servers) = N) => released = DOMAIN displays

\* C3: no X server is terminated before the context exits, none is ever
\* terminated twice, and when the program has ended every X server that was
\* started has been terminated exactly once (and nothing else has).
C3_ServersTerminatedOnce ==
    /\ pc \notin {"cleanup", "exit"} => \A b \in DOMAIN terminates : terminates[b] = 0
    /\ \A b \in DOMAIN terminates : terminates[b] <= 1
    /\ pc = "exit" =>
         \A b \in DOMAIN terminates : terminates[b] = (IF b \in Started THEN 1 ELSE 0)

\* The X server of the second GPU failed to start, and the program has ended
\* with the first GPU's server terminated.
C3_Witness ==
    /\ pc = "exit"
    /\ N = 2
    /\ Started = {buses[1]}
    /\ terminates[buses[1]] = 1
    /\ \E f \in failed : f.tool = "Xorg"

\* C4: whenever a nvidia-settings command (enable, target or release) is
\* issued, an X server has been started for every GPU, the command's GPU among
\* them, and no X server has been terminated yet: commands come after all the
\* starts, and a GPU's release comes before the termination of its X server.
C4_DisplayServerExists ==
    \A c \in Outs : IsSetting(c) =>
        /\ Len(servers) = N
        /\ c.bus \in Started
        /\ \A b \in DOMAIN terminates : terminates[b] = 0

\* Both GPUs were released and then both X servers terminated.
C4_Witness ==
    /\ pc = "exit"
    /\ N = 2
    /\ released = {buses[1], buses[2]}
    /\ \A b \in DOMAIN terminates : terminates[b] = 1

\* C5: after a poll at a temperature below 55 the speed is S_MIN, and after a
\* poll at a temperature above 80 it is S_MAX, whatever the speed was before.
C5_Clamped ==
    \A b \in DOMAIN lastTemp :
        /\ lastTemp[b] < 55 => speeds[b] = S_MIN
        /\ lastTemp[b] > 80 => speeds[b] = S_MAX

\* C6: once a temperature query or a driver command has failed, no step reads
\* a temperature, the only driver commands issued are release commands, and no
\* failed invocation is made again.
C6_NoRetry ==
    [][(\E f \in failed : IsQuery(f) \/ IsSetting(f)) =>
        \A k \in 1..Len(out') :
            /\ ~IsQuery(out'[k])
            /\ IsSetting(out'[k]) => IsRelease(out'[k])
            /\ \A f \in failed : ~SameOp(out'[k], f)]_vars

\* The query of the first GPU failed, and since then both GPUs were released.
C6_Witness ==
    /\ N = 2
    /\ \E f \in failed : IsQuery(f) /\ f.bus = buses[1]
    /\ released = {buses[1], buses[2]}

\* C7: a completed poll of bus b at temperature t with recorded speed s issues
\* nothing and keeps s when min_speed(t) <= s <= max_speed(t); otherwise it
\* issues GPUFanControlState=1 and then GPUTargetFanSpeed with the bound nearest
\* to s, which becomes the recorded speed; the other recorded speeds stay.
C7_HysteresisStep ==
    [][PollStep =>
        LET b == out'[1].bus
            t == out'[1].val
            s == speeds[b]
            l == min_speed(t)
            u == max_speed(t)
            cmds == Tail(out')
        IN  /\ IsQuery(out'[1]) /\ out'[1].ok
            /\ (l <= s /\ s <= u) => (cmds = <<>> /\ speeds'[b] = s)
            /\ s < l => /\ cmds = <<assign(b, "GPUFanControlState", 1, TRUE),
                                    assign(b, "GPUTargetFanSpeed", l, TRUE)>>
                        /\ speeds'[b] = l
            /\ s > u => /\ cmds = <<assign(b, "GPUFanControlState", 1, TRUE),
                                    assign(b, "GPUTargetFanSpeed", u, TRUE)>>
                        /\ speeds'[b] = u
            /\ DOMAIN speeds' = DOMAIN speeds
            /\ \A c \in DOMAIN speeds \ {b} : speeds'[c] = speeds[c]]_vars

\* The second of two GPUs has just been slowed down to the upper bound of its
\* temperature, which lies above the lower bound.
C7_Witness ==
    /\ pc = "poll"
    /\ N = 2
    /\ Len(out) = 3
    /\ out[1].bus = buses[2]
    /\ out[3].val = max_speed(out[1].val)
    /\ min_speed(out[1].val) < max_speed(out[1].val)
    /\ speeds[buses[2]] = out[3].val
    /\ speeds[buses[1]] > 0

\* C8: min_speed(t) <= max_speed(t) at every temperature, and the recorded
\* speed of a polled GPU lies between the two bounds of its last temperature.
C8_BoundsDoNotCross ==
    /\ \A t \in CurveTemps : min_speed(t) <= max_speed(t)
    /\ \A b \in DOMAIN lastTemp :
         /\ min_speed(lastTemp[b]) <= speeds[b]
         /\ speeds[b] <= max_speed(lastTemp[b])

\* A GPU whose recorded speed lies strictly between the bounds of its last
\* temperature.
C8_Witness ==
    /\ pc = "poll"
    /\ \E b \in DOMAIN lastTemp :
         /\ min_speed(lastTemp[b]) < speeds[b]
         /\ speeds[b] < max_speed(lastTemp[b])

\* C9: from the second completed poll of a GPU on, the recorded speed does not
\* decrease when the temperature did not fall, does not increase when it did
\* not rise, and no command is issued when it is unchanged.
C9_FollowsTemperature ==
    [][(PollStep /\ out'[1].bus \in DOMAIN lastTemp) =>
        LET b == out'[1].bus
            t == out'[1].val
        IN  /\ t >= lastTemp[b] => speeds'[b] >= speeds[b]
            /\ t <= lastTemp[b] => speeds'[b] <= speeds[b]
            /\ t = lastTemp[b] => Len(out') = 1]_vars

\* A GPU that has just been slowed down, at 60 degrees, to the upper bound.
C9_Witness ==
    /\ pc = "poll"
    /\ Len(out) = 3
    /\ lastTemp[out[1].bus] = 60
    /\ out[3].val = max_speed(60)
    /\ speeds[out[1].bus] = max_speed(60)

====
